---- MODULE Spec2Model ----
(***************************************************************************)
(* A model of process_enums.py: the name resolver (resolve_qualname), the  *)
(* enum extractor (Parser), the substitution compiler (_to_sed_script)     *)
(* and main.  Text is modelled character by character: a string is a       *)
(* sequence of one-character strings.                                      *)
(***************************************************************************)
EXTENDS Integers, Sequences, FiniteSets, TLC

VARIABLES
    pc,             \* position of the modelled run
    substitutions,  \* list of (member, qual_name) pairs given to _to_sed_script
    result,         \* the rule list _to_sed_script returns
    stderr,         \* the warning lines written to sys.stderr
    input,          \* the line given to sed
    text,           \* the line sed holds while it runs the script
    before,         \* the line sed held before the last rule it applied
    ip,             \* number of rules of the script already applied to text
    args,           \* main: the parsed command line
    stdout,         \* main: the lines printed to standard output
    cursor,         \* how many items of the current loop are done
    node,           \* resolve_qualname: the node given
    basename,       \* resolve_qualname: the base name given
    assigns,        \* resolve_qualname: the binding sites lookup() returned
    full_basename,  \* resolve_qualname: the local of that name, then the value returned
    module,         \* Parser: the module node given to parse_module
    _qual_name_stack, \* Parser._qual_name_stack
    frames          \* Parser: the running calls of parse_module and parse_classdef

sedVars == <<substitutions, result, stderr, input, text, before, ip>>
mainVars == <<args, stdout>>
resolveVars == <<node, basename, assigns, full_basename>>
walkVars == <<module, _qual_name_stack, frames>>
vars == <<pc, cursor, sedVars, mainVars, resolveVars, walkVars>>

\* What the variables of main hold in runs that do not call main
NoArgs == [binding |-> [is_none |-> TRUE, items |-> <<>>], file_or_directory |-> <<>>]
MainIdle == args = NoArgs /\ stdout = <<>>

\* What the variables of resolve_qualname hold in runs that do not call it
ResolveIdle ==
    node = [type |-> "Module"] /\ basename = <<>> /\ assigns = <<>> /\ full_basename = <<>>

\* What the variables of the Parser hold in runs that do not walk a module
WalkIdle ==
    module = [name |-> <<>>, classes |-> <<>>] /\ _qual_name_stack = <<>> /\ frames = <<>>

(***************************************************************************)
(* Characters and strings                                                  *)
(***************************************************************************)
Lower == {"a","b","c","d","e","f","g","h","i","j","k","l","m",
          "n","o","p","q","r","s","t","u","v","w","x","y","z"}
Upper == {"A","B","C","D","E","F","G","H","I","J","K","L","M",
          "N","O","P","Q","R","S","T","U","V","W","X","Y","Z"}
Digit == {"0","1","2","3","4","5","6","7","8","9"}

\* The characters of the model in code point order (Python compares strings
\* by code point).
Ascii == <<" ", "(", ")", ",", ".",
           "0","1","2","3","4","5","6","7","8","9", ";", "=",
           "A","B","C","D","E","F","G","H","I","J","K","L","M",
           "N","O","P","Q","R","S","T","U","V","W","X","Y","Z", "_",
           "a","b","c","d","e","f","g","h","i","j","k","l","m",
           "n","o","p","q","r","s","t","u","v","w","x","y","z">>

CharCode == [c \in {Ascii[i] : i \in 1..Len(Ascii)} |->
                CHOOSE i \in 1..Len(Ascii) : Ascii[i] = c]

RECURSIVE StrLess(_, _)
\* a < b for Python strings
StrLess(a, b) ==
    IF b = <<>> THEN FALSE
    ELSE IF a = <<>> THEN TRUE
    ELSE IF Head(a) # Head(b) THEN CharCode[Head(a)] < CharCode[Head(b)]
    ELSE StrLess(Tail(a), Tail(b))

\* Index of the first "." of s, or 0
FirstDot(s) ==
    IF \E i \in 1..Len(s) : s[i] = "."
    THEN CHOOSE i \in 1..Len(s) : s[i] = "." /\ \A j \in 1..(i-1) : s[j] # "."
    ELSE 0

\* s.split(".", 1)[0]
TopLevel(s) == IF FirstDot(s) = 0 THEN s ELSE SubSeq(s, 1, FirstDot(s) - 1)

RECURSIVE SplitOn(_, _)
\* s.split(sep) for a separator of one character
SplitOn(s, sep) ==
    IF \A i \in 1..Len(s) : s[i] # sep THEN <<s>>
    ELSE LET i == CHOOSE a \in 1..Len(s) : s[a] = sep /\ \A b \in 1..(a - 1) : s[b] # sep
         IN  <<SubSeq(s, 1, i - 1)>> \o SplitOn(SubSeq(s, i + 1, Len(s)), sep)

\* s.split(".")
Split(s) == SplitOn(s, ".")

RECURSIVE Join(_)
\* ".".join(parts)
Join(parts) ==
    IF parts = <<>> THEN <<>>
    ELSE IF Len(parts) = 1 THEN parts[1]
    ELSE parts[1] \o <<".">> \o Join(Tail(parts))

(***************************************************************************)
(* Names used as inputs                                                    *)
(***************************************************************************)
sRead == <<"R","e","a","d">>
sReadWrite == <<"R","e","a","d","W","r","i","t","e">>
sLeft == <<"L","e","f","t">>
sMidButton == <<"M","i","d","B","u","t","t","o","n">>
sMiddleButton == <<"M","i","d","d","l","e","B","u","t","t","o","n">>
sMouseButton == <<"M","o","u","s","e","B","u","t","t","o","n">>
sQt == <<"Q","t">>
sMultiSelection == <<"M","u","l","t","i","S","e","l","e","c","t","i","o","n">>
sSelectionMode == <<"S","e","l","e","c","t","i","o","n","M","o","d","e">>
sQAbstractItemView == <<"Q","A","b","s","t","r","a","c","t","I","t","e","m","V","i","e","w">>
sPySide2 == <<"P","y","S","i","d","e","2">>
sview == <<"v","i","e","w">>
sx == <<"x">>
sQtCore == <<"Q","t","C","o","r","e">>
sQtGui == <<"Q","t","G","u","i">>
sQtWidgets == <<"Q","t","W","i","d","g","e","t","s">>
sQtNetwork == <<"Q","t","N","e","t","w","o","r","k">>
sQFile == <<"Q","F","i","l","e">>
sQSocket == <<"Q","S","o","c","k","e","t">>
sQText == <<"Q","T","e","x","t">>
sMode == <<"M","o","d","e">>
sAlign == <<"A","l","i","g","n">>
sPySide6 == <<"P","y","S","i","d","e","6">>
senum == <<"e","n","u","m">>
sEnum == <<"E","n","u","m">>
sIntEnum == <<"I","n","t","E","n","u","m">>
sQObject == <<"Q","O","b","j","e","c","t">>

Pair(m, q) == [member |-> m, qual_name |-> q]

\* src/process_enums.py:397
HardCodedPair == Pair(sMidButton, Join(<<sQtCore, sQt, sMouseButton, sMiddleButton>>))

(***************************************************************************)
(* The substitution compiler                                               *)
(***************************************************************************)
_PREFFERED_QT_MODULES == {sQtCore, sQtGui, sQtWidgets}

\* The sort key of a pair, a tuple compared component by component; False < True.
_sort_key_mutant_ascending(p) ==
    <<Len(p.member), p.member,
      TopLevel(p.qual_name) \in _PREFFERED_QT_MODULES, p.qual_name>>

_sort_key(p) ==
    <<0 - Len(p.member), p.member,
      TopLevel(p.qual_name) \in _PREFFERED_QT_MODULES, p.qual_name>>

\* k1 < k2 for two sort keys
KeyLess(k1, k2) ==
    IF k1[1] # k2[1] THEN k1[1] < k2[1]
    ELSE IF k1[2] # k2[2] THEN StrLess(k1[2], k2[2])
    ELSE IF k1[3] # k2[3] THEN k2[3]
    ELSE StrLess(k1[4], k2[4])

RECURSIVE InsertByKey(_, _)
\* x put into the sorted list s after every element that is not greater
InsertByKey(s, x) ==
    IF s = <<>> THEN <<x>>
    ELSE IF KeyLess(_sort_key(x), _sort_key(Head(s))) THEN <<x>> \o s
    ELSE <<Head(s)>> \o InsertByKey(Tail(s), x)

RECURSIVE Sorted(_)
\* sorted(s, key=_sort_key): a stable sort
Sorted(s) ==
    IF s = <<>> THEN <<>>
    ELSE InsertByKey(Sorted(SubSeq(s, 1, Len(s) - 1)), s[Len(s)])

\* The rule of line 356, held by its kind and the two interpolated strings
GenericRule(p) == [kind |-> "generic", lit |-> p.member, qual_name |-> p.qual_name]

\* qual_parts[:-2] joined, a dot, qual_parts[-1]
OldLocation(qual_name) ==
    LET qual_parts == Split(qual_name)
        n == Len(qual_parts)
    IN  Join(IF n > 2 THEN SubSeq(qual_parts, 1, n - 2) ELSE <<>>)
        \o <<".">> \o qual_parts[n]

\* The rule of line 363
LegacyRule(p) == [kind |-> "legacy", lit |-> OldLocation(p.qual_name),
                  qual_name |-> p.qual_name]

RECURSIVE Rules(_)
Rules(sorted) ==
    IF sorted = <<>> THEN <<>>
    ELSE <<GenericRule(Head(sorted)), LegacyRule(Head(sorted))>> \o Rules(Tail(sorted))

RECURSIVE MemberOrder(_, _)
\* The keys of member_qual_names in insertion order
MemberOrder(sorted, seen) ==
    IF sorted = <<>> THEN <<>>
    ELSE IF Head(sorted).member \in seen THEN MemberOrder(Tail(sorted), seen)
    ELSE <<Head(sorted).member>>
         \o MemberOrder(Tail(sorted), seen \cup {Head(sorted).member})

RECURSIVE QualNamesOf(_, _)
\* member_qual_names[member]
QualNamesOf(sorted, member) ==
    IF sorted = <<>> THEN <<>>
    ELSE (IF Head(sorted).member = member THEN <<Head(sorted).qual_name>> ELSE <<>>)
         \o QualNamesOf(Tail(sorted), member)

RECURSIVE Warnings(_, _)
\* The lines printed to sys.stderr, held by the three interpolated values
Warnings(members, sorted) ==
    IF members = <<>> THEN <<>>
    ELSE LET qual_names == QualNamesOf(sorted, Head(members))
         IN  (IF Len(qual_names) > 1
              THEN <<[member |-> Head(members),
                      chosen |-> qual_names[Len(qual_names)],
                      candidates |-> qual_names]>>
              ELSE <<>>)
             \o Warnings(Tail(members), sorted)

ToSedScriptRules(subs) == Rules(Sorted(subs))
ToSedScriptWarnings(subs) == Warnings(MemberOrder(Sorted(subs), {}), Sorted(subs))

(***************************************************************************)
(* SpecCompile: _to_sed_script called on a list of pairs                   *)
(***************************************************************************)
MaxPairs == 3

PairPool == {
    Pair(sRead, Join(<<sQtCore, sQFile, sMode, sRead>>)),
    Pair(sRead, Join(<<sQtNetwork, sQSocket, sMode, sRead>>)),
    Pair(sReadWrite, Join(<<sQtCore, sQFile, sMode, sReadWrite>>)),
    Pair(sLeft, Join(<<sQtGui, sQText, sAlign, sLeft>>)),
    Pair(sLeft, Join(<<sQtWidgets, sQText, sAlign, sLeft>>)),
    HardCodedPair }

PairLists == UNION {[1..n -> PairPool] : n \in 0..MaxPairs}

InitCompile ==
    /\ pc = "compile"
    /\ substitutions \in PairLists
    /\ result = <<>>
    /\ stderr = <<>>
    /\ input = <<>>
    /\ text = <<>>
    /\ before = <<>>
    /\ ip = 0
    /\ cursor = 0
    /\ MainIdle
    /\ ResolveIdle
    /\ WalkIdle

\* _to_sed_script(substitutions)
ToSedScript ==
    /\ pc = "compile"
    /\ result' = ToSedScriptRules(substitutions)
    /\ stderr' = ToSedScriptWarnings(substitutions)
    /\ pc' = "compiled"
    /\ UNCHANGED <<substitutions, input, text, before, ip, cursor, mainVars, resolveVars, walkVars>>

NextCompile == ToSedScript

SpecCompile == InitCompile /\ [][NextCompile]_vars

(***************************************************************************)
(* C2: the rules come in pairs, a generic rule then the legacy rule of the *)
(* same qualified name, one pair of rules per input pair, and the rules of *)
(* a pair with a longer member name come before the rules of every pair    *)
(* with a shorter member name.                                             *)
(***************************************************************************)
RulePairAt(k) == Pair(result[2 * k - 1].lit, result[2 * k - 1].qual_name)

CountIn(s, x) == Cardinality({i \in 1..Len(s) : s[i] = x})

C2_LongerMemberFirst ==
    pc = "compiled" =>
        /\ Len(result) = 2 * Len(substitutions)
        /\ \A k \in 1..Len(substitutions) :
              /\ result[2 * k - 1] = GenericRule(RulePairAt(k))
              /\ result[2 * k] = LegacyRule(RulePairAt(k))
              /\ CountIn(substitutions, RulePairAt(k))
                    = Cardinality({l \in 1..Len(substitutions) : RulePairAt(l) = RulePairAt(k)})
        /\ \A k, l \in 1..Len(substitutions) :
              Len(RulePairAt(k).member) > Len(RulePairAt(l).member) => k < l

\* A run in which a shorter member name was given before a longer one
C2_Witness ==
    /\ pc = "compiled"
    /\ \E i, j \in 1..Len(substitutions) :
          /\ i < j
          /\ Len(substitutions[i].member) < Len(substitutions[j].member)
          /\ substitutions[i].member = sRead
          /\ substitutions[j].member = sReadWrite

(***************************************************************************)
(* C4: one warning line for each member name that has more than one        *)
(* distinct qualified name, listing all of them; no warning line for a     *)
(* member name that has a single distinct qualified name; one generic rule *)
(* for each distinct qualified name of a member.                           *)
(***************************************************************************)
DistinctQualNames(member) ==
    {substitutions[i].qual_name :
        i \in {j \in 1..Len(substitutions) : substitutions[j].member = member}}

C4_OneWarningPerAmbiguousMember ==
    pc = "compiled" =>
        \A i \in 1..Len(substitutions) :
            LET member == substitutions[i].member
                names == DistinctQualNames(member)
                lines == {k \in 1..Len(stderr) : stderr[k].member = member}
            IN  /\ Cardinality(names) > 1 =>
                      /\ Cardinality(lines) = 1
                      /\ \A k \in lines :
                            {stderr[k].candidates[c] :
                                c \in 1..Len(stderr[k].candidates)} = names
                /\ Cardinality(names) = 1 => lines = {}
                /\ \A q \in names :
                      Cardinality({r \in 1..Len(result) :
                                      result[r] = GenericRule(Pair(member, q))}) = 1

(***************************************************************************)
(* The rules as sed -E runs them: s/pattern/replacement/g on one line,     *)
(* each match the longest one at the leftmost place, matches not           *)
(* overlapping, "^" matching only at the start of the line.                *)
(***************************************************************************)
\* [a-zA-Z0-9_.]
IsWordChar(c) == c \in Lower \cup Upper \cup Digit \cup {"_", "."}
\* [^a-zA-Z0-9_.]
IsBoundary(c) == ~IsWordChar(c)
\* [a-zA-PR-Z0-9_.]
FirstClass(c) == c \in Lower \cup (Upper \ {"Q"}) \cup Digit \cup {"_", "."}
\* [a-su-z0-9_.]
SecondClass(c) == c \in (Lower \ {"t"}) \cup Digit \cup {"_", "."}

\* The interpolated name matches t from position q on; its dots are not
\* escaped and match any character.
LitAt(lit, t, q) ==
    /\ q + Len(lit) - 1 <= Len(t)
    /\ \A k \in 1..Len(lit) : lit[k] = "." \/ lit[k] = t[q + k - 1]

\* The part of a pattern before "\." matches t[p..q-1]
PrefixMatches(kind, t, p, q) ==
    IF kind = "generic"
    THEN /\ q >= p + 1
         /\ FirstClass(t[p])
         /\ q > p + 1 => SecondClass(t[p + 1])
         /\ \A k \in (p + 2)..(q - 1) : IsWordChar(t[k])
    ELSE /\ q >= p + 1
         /\ \A k \in p..(q - 1) : IsWordChar(t[k])

\* The places q of the "\." of the matches of the pattern after its first
\* group that start at position p: the name follows the dot and then comes
\* the end of the line or a boundary character.
DotPlaces(rule, t, p) ==
    {q \in (p + 1)..(Len(t) - Len(rule.lit)) :
        /\ t[q] = "."
        /\ LitAt(rule.lit, t, q + 1)
        /\ q + Len(rule.lit) < Len(t) => IsBoundary(t[q + Len(rule.lit) + 1])
        /\ PrefixMatches(rule.kind, t, p, q)}

\* The places of the "\." of the matches of the whole pattern that start at
\* position i: the first group is the boundary character t[i], or empty at
\* the start of the line.
MatchesAt(rule, t, i) ==
    IF IsBoundary(t[i]) THEN DotPlaces(rule, t, i + 1)
    ELSE IF i = 1 THEN DotPlaces(rule, t, 1)
    ELSE {}

RECURSIVE SubstituteFrom(_, _, _)
\* The line from position from on, every match replaced by \1 qual_name \3
SubstituteFrom(rule, t, from) ==
    IF from > Len(t) THEN <<>>
    ELSE LET starts == {i \in from..Len(t) : MatchesAt(rule, t, i) # {}}
         IN  IF starts = {} THEN SubSeq(t, from, Len(t))
             ELSE LET i == CHOOSE a \in starts : \A b \in starts : a <= b
                      qs == MatchesAt(rule, t, i)
                      q == CHOOSE a \in qs : \A b \in qs : a >= b
                      r == q + Len(rule.lit)
                      pre == IF IsBoundary(t[i]) THEN <<t[i]>> ELSE <<>>
                      post == IF r < Len(t) THEN <<t[r + 1]>> ELSE <<>>
                      end == IF r < Len(t) THEN r + 1 ELSE r
                  IN  SubSeq(t, from, i - 1) \o pre \o rule.qual_name \o post
                      \o SubstituteFrom(rule, t, end + 1)

\* One rule applied to a line
Substitute(rule, t) == SubstituteFrom(rule, t, 1)

(***************************************************************************)
(* SpecSed: a script compiled by _to_sed_script and run on one line        *)
(***************************************************************************)
MaxSedPairs == 2

MultiSelectionPair ==
    Pair(sMultiSelection,
         Join(<<sQtWidgets, sQAbstractItemView, sSelectionMode, sMultiSelection>>))

SedPairPool == {
    MultiSelectionPair,
    Pair(sRead, Join(<<sQtCore, sQFile, sMode, sRead>>)),
    Pair(sRead, Join(<<sQtNetwork, sQSocket, sMode, sRead>>)) }

SedPairLists == UNION {[1..n -> SedPairPool] : n \in 1..MaxSedPairs}

\* What a line may hold before and after a name
Around == {<<>>, <<" ">>, <<"(">>, <<")">>}

SedNames(subs) ==
    UNION {{ Join(<<sx, subs[i].member>>),
             Join(<<sview, subs[i].member>>),
             Join(<<sQAbstractItemView, subs[i].member>>),
             OldLocation(subs[i].qual_name),
             Join(<<sPySide2, OldLocation(subs[i].qual_name)>>) } : i \in 1..Len(subs)}

InitSed ==
    /\ pc = "compile"
    /\ substitutions \in SedPairLists
    /\ result = <<>>
    /\ stderr = <<>>
    /\ \E a, b \in Around : \E n \in SedNames(substitutions) : input = a \o n \o b
    /\ text = input
    /\ before = input
    /\ ip = 0
    /\ cursor = 0
    /\ MainIdle
    /\ ResolveIdle
    /\ WalkIdle

\* sed applies the next rule of the script to the line
SedApplyRule ==
    /\ pc = "compiled"
    /\ ip < Len(result)
    /\ before' = text
    /\ text' = Substitute(result[ip + 1], text)
    /\ ip' = ip + 1
    /\ UNCHANGED <<pc, substitutions, result, stderr, input, cursor, mainVars, resolveVars, walkVars>>

NextSed == ToSedScript \/ SedApplyRule

SpecSed == InitSed /\ [][NextSed]_vars

(***************************************************************************)
(* C1: the generic rule of the MultiSelection pair rewrites a standalone   *)
(* QAbstractItemView.MultiSelection to the qualified name and keeps what   *)
(* stands before and after it.                                             *)
(***************************************************************************)
C1_GenericRuleRewritesStandalone ==
    (pc = "compiled" /\ ip = 1 /\ result[1] = GenericRule(MultiSelectionPair)) =>
        \A a, b \in Around :
            before = a \o Join(<<sQAbstractItemView, sMultiSelection>>) \o b
                => text = a \o MultiSelectionPair.qual_name \o b

(***************************************************************************)
(* C3: when a member name has several qualified names, the text x.MEMBER   *)
(* run through the whole script ends as the qualified name the warning     *)
(* line names as the one substituted.                                      *)
(***************************************************************************)
C3_WarnedNameIsSubstituted ==
    (pc = "compiled" /\ ip = Len(result)) =>
        \A k \in 1..Len(stderr) :
            input = Join(<<sx, stderr[k].member>>) => text = stderr[k].chosen

(***************************************************************************)
(* C8: the legacy path rule of a pair rewrites the old location, the       *)
(* qualified name without its second-to-last segment, standing alone, to   *)
(* the qualified name and keeps what stands before and after it.           *)
(***************************************************************************)
C8_LegacyRuleRewritesOldLocation ==
    (pc = "compiled" /\ ip >= 2 /\ result[ip].kind = "legacy") =>
        \A a, b \in Around :
            before = a \o result[ip].lit \o b
                => text = a \o result[ip].qual_name \o b

(***************************************************************************)
(* SpecMain: main run on a command line                                    *)
(***************************************************************************)
MaxFiles == 2
MaxBindings == 2

sPyQt5 == <<"P","y","Q","t","5">>

\* The values of -b on the command line
BindingPool == { sPySide2 \o <<",">> \o sPySide6, sPyQt5 \o <<",">> \o sPySide6, sPySide2 }

\* What parse_file returns for the stub files of the model
StubPool == {
    <<>>,
    <<Pair(sRead, Join(<<sQtCore, sQFile, sMode, sRead>>))>>,
    <<Pair(sRead, Join(<<sQtNetwork, sQSocket, sMode, sRead>>)),
      Pair(sReadWrite, Join(<<sQtCore, sQFile, sMode, sReadWrite>>))>> }

\* A file_or_directory argument is held as what parse_file returns for each
\* stub file it stands for: one for a file, any number for a directory.
PathPool == {<<f>> : f \in StubPool} \cup {<<>>} \cup {<<f, g>> : f, g \in StubPool \ {<<>>}}

\* argparse: -b has action "append" and no default, so args.binding is None
\* when -b is not given and the list of its values otherwise;
\* file_or_directory has nargs "+".
ArgsSpace ==
    [binding : {[is_none |-> TRUE, items |-> <<>>]}
               \cup {[is_none |-> FALSE, items |-> b] :
                        b \in UNION {[1..n -> BindingPool] : n \in 1..MaxBindings}},
     file_or_directory : UNION {[1..n -> PathPool] : n \in 1..MaxFiles}]

RECURSIVE Flatten(_)
Flatten(lists) == IF lists = <<>> THEN <<>> ELSE Head(lists) \o Flatten(Tail(lists))

RECURSIVE RuleLines(_)
RuleLines(rules) ==
    IF rules = <<>> THEN <<>> ELSE <<<<"rule", Head(rules)>>>> \o RuleLines(Tail(rules))

InitMain ==
    /\ pc = "main_files"
    /\ args \in ArgsSpace
    /\ substitutions = <<HardCodedPair>>
    /\ result = <<>>
    /\ stderr = <<>>
    /\ stdout = <<>>
    /\ cursor = 0
    /\ input = <<>>
    /\ text = <<>>
    /\ before = <<>>
    /\ ip = 0
    /\ ResolveIdle
    /\ WalkIdle

\* One file_or_directory of the loop of lines 399-408
MainParsePath ==
    /\ pc = "main_files"
    /\ cursor < Len(args.file_or_directory)
    /\ substitutions' = substitutions \o Flatten(args.file_or_directory[cursor + 1])
    /\ cursor' = cursor + 1
    /\ UNCHANGED <<pc, result, stderr, input, text, before, ip, args, stdout, resolveVars, walkVars>>

\* Line 410
MainCompile ==
    /\ pc = "main_files"
    /\ cursor = Len(args.file_or_directory)
    /\ result' = ToSedScriptRules(substitutions)
    /\ stderr' = ToSedScriptWarnings(substitutions)
    /\ pc' = "main_bindings"
    /\ cursor' = 0
    /\ UNCHANGED <<substitutions, input, text, before, ip, args, stdout, resolveVars, walkVars>>

\* Line 411 when args.binding is None: iterating over None raises TypeError
MainBindingNone ==
    /\ pc = "main_bindings"
    /\ args.binding.is_none
    /\ pc' = "raised"
    /\ UNCHANGED <<cursor, sedVars, mainVars, resolveVars, walkVars>>

\* Lines 412-414 for one value of -b; unpacking raises ValueError unless
\* the value splits into two parts
MainPrintBinding ==
    /\ pc = "main_bindings"
    /\ ~args.binding.is_none
    /\ cursor < Len(args.binding.items)
    /\ LET parts == SplitOn(args.binding.items[cursor + 1], ",")
       IN  IF Len(parts) = 2
           THEN /\ stdout' = stdout \o <<<<"import", parts[1], parts[2]>>,
                                          <<"from", parts[1], parts[2]>>>>
                /\ cursor' = cursor + 1
                /\ pc' = pc
           ELSE /\ pc' = "raised"
                /\ UNCHANGED <<stdout, cursor>>
    /\ UNCHANGED <<sedVars, args, resolveVars, walkVars>>

\* Lines 415-417
MainPrintRules ==
    /\ pc = "main_bindings"
    /\ ~args.binding.is_none
    /\ cursor = Len(args.binding.items)
    /\ stdout' = stdout \o RuleLines(result)
    /\ pc' = "returned"
    /\ UNCHANGED <<sedVars, args, cursor, resolveVars, walkVars>>

NextMain ==
    \/ MainParsePath
    \/ MainCompile
    \/ MainBindingNone
    \/ MainPrintBinding
    \/ MainPrintRules

SpecMain == InitMain /\ [][NextMain]_vars

(***************************************************************************)
(* C5: whatever the files and the values of -b of the form OLD,NEW, none   *)
(* included, main returns and has printed the two rules of the hard-coded  *)
(* pair.                                                                   *)
(***************************************************************************)
BindingsWellFormed ==
    \A i \in 1..Len(args.binding.items) : Len(SplitOn(args.binding.items[i], ",")) = 2

C5_MainPrintsHardCodedRules ==
    BindingsWellFormed =>
    /\ pc # "raised"
    /\ pc = "returned" =>
          /\ \E i \in 1..Len(stdout) : stdout[i] = <<"rule", GenericRule(HardCodedPair)>>
          /\ \E i \in 1..Len(stdout) : stdout[i] = <<"rule", LegacyRule(HardCodedPair)>>

(***************************************************************************)
(* The name resolver                                                       *)
(***************************************************************************)
StartsWith(s, prefix) ==
    Len(s) >= Len(prefix) /\ SubSeq(s, 1, Len(prefix)) = prefix

\* re.sub(r"\(.*\)", repl, s): the pattern is greedy, so its one match runs
\* from the first "(" that has a ")" after it to the last ")".
ReSubParens(s, repl) ==
    LET opens == {i \in 1..Len(s) : s[i] = "(" /\ \E j \in (i + 1)..Len(s) : s[j] = ")"}
    IN  IF opens = {} THEN s
        ELSE LET i == CHOOSE a \in opens : \A b \in opens : a <= b
                 j == CHOOSE a \in (i + 1)..Len(s) :
                         s[a] = ")" /\ \A b \in (a + 1)..Len(s) : s[b] # ")"
             IN  SubSeq(s, 1, i - 1) \o repl \o SubSeq(s, j + 1, Len(s))

\* s.replace(old, new, 1)
Replace1(s, old, new) ==
    LET places == {i \in 1..(Len(s) - Len(old) + 1) : SubSeq(s, i, i + Len(old) - 1) = old}
    IN  IF places = {} THEN s
        ELSE LET i == CHOOSE a \in places : \A b \in places : a <= b
             IN  SubSeq(s, 1, i - 1) \o new \o SubSeq(s, i + Len(old), Len(s))

RECURSIVE resolve_import_alias(_, _)
\* import_names holds [name, imported_as, aliased]; imported_as is None
\* when aliased is FALSE
resolve_import_alias(name, import_names) ==
    IF import_names = <<>> THEN name
    ELSE IF Head(import_names).name = name THEN name
    ELSE IF Head(import_names).aliased /\ Head(import_names).imported_as = name
         THEN Head(import_names).name
    ELSE resolve_import_alias(name, Tail(import_names))

\* absolute_name is what module.relative_to_absolute_name(modname, level)
\* gives for the import
get_full_import_name(import_from, name) ==
    LET partial_basename == resolve_import_alias(name, import_from.names)
        module_name == IF import_from.level # 0 THEN import_from.absolute_name
                       ELSE import_from.modname
    IN  module_name \o <<".">> \o partial_basename

\* The first segment of the name without its parenthesised part (line 81)
TopLevelName(name) == TopLevel(ReSubParens(name, <<>>))

BreakingTypes == {"ImportFrom", "Import", "ClassDef"}

\* One turn of the loop of lines 89-102: the new full_basename and whether
\* the loop breaks
VisitAssignment_mutant_break(name, full, assignment) ==
    LET top_level_name == TopLevelName(name)
    IN  IF assignment.type = "ImportFrom"
        THEN [full |-> Replace1(name, top_level_name,
                                get_full_import_name(assignment, top_level_name)),
              break |-> TRUE]
        ELSE IF assignment.type = "Import"
        THEN [full |-> Replace1(name, top_level_name,
                                resolve_import_alias(top_level_name, assignment.names)),
              break |-> TRUE]
        ELSE IF assignment.type = "ClassDef"
        THEN [full |-> assignment.qname, break |-> TRUE]
        ELSE IF assignment.type = "AssignName"
        THEN [full |-> assignment.qname \o <<".">> \o assignment.name, break |-> TRUE]
        ELSE [full |-> full, break |-> FALSE]

VisitAssignment(name, full, assignment) ==
    LET top_level_name == TopLevelName(name)
    IN  IF assignment.type = "ImportFrom"
        THEN [full |-> Replace1(name, top_level_name,
                                get_full_import_name(assignment, top_level_name)),
              break |-> TRUE]
        ELSE IF assignment.type = "Import"
        THEN [full |-> Replace1(name, top_level_name,
                                resolve_import_alias(top_level_name, assignment.names)),
              break |-> TRUE]
        ELSE IF assignment.type = "ClassDef"
        THEN [full |-> assignment.qname, break |-> TRUE]
        ELSE IF assignment.type = "AssignName"
        THEN [full |-> assignment.qname \o <<".">> \o assignment.name, break |-> FALSE]
        ELSE [full |-> full, break |-> FALSE]

sbuiltins == <<"b","u","i","l","t","i","n","s">>
s__builtin__ == <<"_","_","b","u","i","l","t","i","n","_","_">>

\* Lines 104-113
FinishQualname_mutant_always_call(node_type, full) ==
    LET collapsed == ReSubParens(full, <<"(", ")">>)
    IN  IF StartsWith(collapsed, sbuiltins \o <<".">>)
        THEN SubSeq(collapsed, Len(sbuiltins) + 2, Len(collapsed))
        ELSE IF StartsWith(collapsed, s__builtin__ \o <<".">>)
        THEN SubSeq(collapsed, Len(s__builtin__) + 2, Len(collapsed))
        ELSE collapsed

FinishQualname(node_type, full) ==
    LET collapsed == IF node_type = "Call" THEN ReSubParens(full, <<"(", ")">>) ELSE full
    IN  IF StartsWith(collapsed, sbuiltins \o <<".">>)
        THEN SubSeq(collapsed, Len(sbuiltins) + 2, Len(collapsed))
        ELSE IF StartsWith(collapsed, s__builtin__ \o <<".">>)
        THEN SubSeq(collapsed, Len(s__builtin__) + 2, Len(collapsed))
        ELSE collapsed

RECURSIVE LoopOver(_, _, _)
\* The loop of lines 89-102 from full on
LoopOver(name, full, sites) ==
    IF sites = <<>> THEN full
    ELSE LET v == VisitAssignment(name, full, Head(sites))
         IN  IF v.break THEN v.full ELSE LoopOver(name, v.full, Tail(sites))

\* resolve_qualname(node, basename), where lookup() gives sites
ResolveQualname(node_type, name, sites) ==
    FinishQualname(node_type, LoopOver(name, name, sites))

(***************************************************************************)
(* SpecResolve: resolve_qualname run on a node, a base name and the        *)
(* binding sites lookup() returns for the leading symbol                   *)
(***************************************************************************)
MaxAssigns == 2

se == <<"e">>
sint == <<"i","n","t">>

NodeTypes == {"Name", "Attribute", "Call"}

BasenamePool == {
    sEnum,
    Join(<<se, sIntEnum>>),
    Join(<<sbuiltins, sint>>),
    Join(<<s__builtin__, sint>>),
    se \o <<"(">> \o sint \o <<")", ".">> \o sEnum }

Site(type, names, modname, level, absolute_name, qname, name) ==
    [type |-> type, names |-> names, modname |-> modname, level |-> level,
     absolute_name |-> absolute_name, qname |-> qname, name |-> name]

ImportName(name) == [name |-> name, imported_as |-> <<>>, aliased |-> FALSE]
ImportAs(name, alias) == [name |-> name, imported_as |-> alias, aliased |-> TRUE]

\* from enum import IntEnum, Enum
SiteFromEnum ==
    Site("ImportFrom", <<ImportName(sIntEnum), ImportName(sEnum)>>, senum, 0, <<>>, <<>>, <<>>)
\* from . import QtCore as e, in a module of package PySide6
SiteFromRelative ==
    Site("ImportFrom", <<ImportAs(sQtCore, se)>>, <<>>, 1, sPySide6, <<>>, <<>>)
\* import enum as e
SiteImportAs == Site("Import", <<ImportAs(senum, se)>>, <<>>, 0, <<>>, <<>>, <<>>)
\* import builtins
SiteImportBuiltins == Site("Import", <<ImportName(sbuiltins)>>, <<>>, 0, <<>>, <<>>, <<>>)
\* class Enum: ... in module QtCore
SiteClassDef == Site("ClassDef", <<>>, <<>>, 0, <<>>, Join(<<sQtCore, sEnum>>), sEnum)
\* e = ... in module QtCore
SiteAssignModule == Site("AssignName", <<>>, <<>>, 0, <<>>, sQtCore, se)
\* Enum = ... in class QtCore.QObject
SiteAssignClass == Site("AssignName", <<>>, <<>>, 0, <<>>, Join(<<sQtCore, sQObject>>), sEnum)
\* def e(): ...
SiteFunctionDef == Site("FunctionDef", <<>>, <<>>, 0, <<>>, Join(<<sQtCore, se>>), se)

SitePool == { SiteFromEnum, SiteFromRelative, SiteImportAs, SiteImportBuiltins,
              SiteClassDef, SiteAssignModule, SiteAssignClass, SiteFunctionDef }

InitResolve ==
    /\ pc = "resolve_loop"
    /\ node \in [type : NodeTypes]
    /\ basename \in BasenamePool
    /\ assigns \in UNION {[1..n -> SitePool] : n \in 0..MaxAssigns}
    /\ full_basename = basename
    /\ cursor = 0
    /\ substitutions = <<>>
    /\ result = <<>>
    /\ stderr = <<>>
    /\ input = <<>>
    /\ text = <<>>
    /\ before = <<>>
    /\ ip = 0
    /\ MainIdle
    /\ WalkIdle

\* One turn of the loop of lines 89-102
ResolveVisit ==
    /\ pc = "resolve_loop"
    /\ cursor < Len(assigns)
    /\ LET v == VisitAssignment(basename, full_basename, assigns[cursor + 1])
       IN  /\ full_basename' = v.full
           /\ pc' = IF v.break THEN "resolve_finish" ELSE pc
    /\ cursor' = cursor + 1
    /\ UNCHANGED <<node, basename, assigns, sedVars, mainVars, walkVars>>

\* The loop runs out of binding sites
ResolveLoopEnd ==
    /\ pc = "resolve_loop"
    /\ cursor = Len(assigns)
    /\ pc' = "resolve_finish"
    /\ UNCHANGED <<cursor, resolveVars, sedVars, mainVars, walkVars>>

\* Lines 104-113: full_basename then holds the value returned
ResolveReturn ==
    /\ pc = "resolve_finish"
    /\ full_basename' = FinishQualname(node.type, full_basename)
    /\ pc' = "resolve_returned"
    /\ UNCHANGED <<cursor, node, basename, assigns, sedVars, mainVars, walkVars>>

NextResolve == ResolveVisit \/ ResolveLoopEnd \/ ResolveReturn

SpecResolve == InitResolve /\ [][NextResolve]_vars

(***************************************************************************)
(* C9: the value returned is the one the first from-import, import or      *)
(* class definition among the binding sites gives alone, whatever name     *)
(* assignments come before it, and the loop looks at no site after it;     *)
(* with no such site it is the one the last name assignment gives alone.   *)
(***************************************************************************)
BreakingPlaces == {i \in 1..Len(assigns) : assigns[i].type \in BreakingTypes}
AssignNamePlaces == {i \in 1..Len(assigns) : assigns[i].type = "AssignName"}
FirstBreaking == CHOOSE a \in BreakingPlaces : \A b \in BreakingPlaces : a <= b
LastAssignName == CHOOSE a \in AssignNamePlaces : \A b \in AssignNamePlaces : a >= b

\* What one binding site of a recognised type gives alone, written out
GivenBy(site) ==
    LET top == TopLevelName(basename)
    IN  CASE site.type = "ImportFrom" ->
                Replace1(basename, top,
                         (IF site.level # 0 THEN site.absolute_name ELSE site.modname)
                         \o <<".">> \o resolve_import_alias(top, site.names))
          [] site.type = "Import" ->
                Replace1(basename, top, resolve_import_alias(top, site.names))
          [] site.type = "ClassDef" -> site.qname
          [] site.type = "AssignName" -> site.qname \o <<".">> \o site.name

C9_FirstImportOrClassElseLastAssign ==
    /\ pc = "resolve_loop" => cursor < (IF BreakingPlaces = {} THEN Len(assigns) + 1
                                        ELSE FirstBreaking)
    /\ pc \in {"resolve_finish", "resolve_returned"} =>
          cursor = (IF BreakingPlaces = {} THEN Len(assigns) ELSE FirstBreaking)
    /\ pc = "resolve_finish" =>
          full_basename =
             IF BreakingPlaces # {} THEN GivenBy(assigns[FirstBreaking])
             ELSE IF AssignNamePlaces # {} THEN GivenBy(assigns[LastAssignName])
             ELSE basename
    /\ pc = "resolve_returned" =>
          full_basename =
             IF BreakingPlaces # {}
             THEN ResolveQualname(node.type, basename, <<assigns[FirstBreaking]>>)
             ELSE IF AssignNamePlaces # {}
             THEN ResolveQualname(node.type, basename, <<assigns[LastAssignName]>>)
             ELSE ResolveQualname(node.type, basename, <<>>)

\* A name assignment comes before an import and another site follows it,
\* or two name assignments are the only sites
C9_Witness ==
    /\ pc = "resolve_returned"
    /\ Len(assigns) = 2
    /\ assigns[1].type = "AssignName"
    /\ assigns[2].type \in BreakingTypes
    /\ full_basename # basename

(***************************************************************************)
(* C10: with no from-import, import, class definition or name assignment   *)
(* among the binding sites, the base name is returned unchanged.           *)
(***************************************************************************)
NoRecognisedSite ==
    \A i \in 1..Len(assigns) : assigns[i].type \notin BreakingTypes \cup {"AssignName"}

C10_UnrecognisedReturnsBasename ==
    (pc = "resolve_returned" /\ NoRecognisedSite) => full_basename = basename

(***************************************************************************)
(* C10 as amended: with no such binding site, the value returned is the    *)
(* base name with, for a call node, its text from the first "(" to the     *)
(* last ")" replaced by "()", and then without a leading "builtins." or    *)
(* "__builtin__."; it is the base name itself in every other case.         *)
(***************************************************************************)
C10_UnrecognisedReturnsCleanedBasename ==
    (pc = "resolve_returned" /\ NoRecognisedSite) =>
        LET collapsed == IF node.type = "Call" THEN ReSubParens(basename, <<"(", ")">>)
                         ELSE basename
            returned == IF StartsWith(collapsed, sbuiltins \o <<".">>)
                        THEN SubSeq(collapsed, Len(sbuiltins) + 2, Len(collapsed))
                        ELSE IF StartsWith(collapsed, s__builtin__ \o <<".">>)
                        THEN SubSeq(collapsed, Len(s__builtin__) + 2, Len(collapsed))
                        ELSE collapsed
        IN  /\ full_basename = returned
            /\ (/\ node.type # "Call" \/ \A i \in 1..Len(basename) : basename[i] # "("
                /\ ~StartsWith(basename, sbuiltins \o <<".">>)
                /\ ~StartsWith(basename, s__builtin__ \o <<".">>))
                    => full_basename = basename

\* A call node whose name has arguments, with a function definition as the
\* only binding site
C10_Witness ==
    /\ pc = "resolve_returned"
    /\ NoRecognisedSite
    /\ Len(assigns) = 1
    /\ node.type = "Call"
    /\ \E i \in 1..Len(basename) : basename[i] = "("
    /\ full_basename # basename

(***************************************************************************)
(* Annotations and class bases                                             *)
(***************************************************************************)
\* An annotation node: its type, its source text (as_string(), the name of
\* a Name, the value of a Const), the binding sites lookup() returns for
\* its leading symbol, and its child nodes (value and slice of a
\* Subscript, the elements of a Tuple or List, left and right of a BinOp).
Annotation(type, as_string, sites, parts) ==
    [type |-> type, as_string |-> as_string, assigns |-> sites, parts |-> parts]

RECURSIVE JoinWith(_, _)
\* sep.join(strings)
JoinWith(strings, sep) ==
    IF strings = <<>> THEN <<>>
    ELSE IF Len(strings) = 1 THEN strings[1]
    ELSE strings[1] \o sep \o JoinWith(Tail(strings), sep)

styping == <<"t","y","p","i","n","g">>
sLiteral == <<"L","i","t","e","r","a","l">>

RECURSIVE _resolve_annotation(_, _)
\* root_name is annotation.root().name
_resolve_annotation(annotation, root_name) ==
    LET each(nodes) == [i \in 1..Len(nodes) |-> _resolve_annotation(nodes[i], root_name)]
        resolved ==
            IF annotation.type \in {"Const", "Name", "Attribute"}
            THEN ResolveQualname(annotation.type, annotation.as_string, annotation.assigns)
            ELSE IF annotation.type = "Subscript"
            THEN LET value == _resolve_annotation(annotation.parts[1], root_name)
                     slice_node == annotation.parts[2]
                     elts == IF slice_node.type = "Tuple" THEN slice_node.parts
                             ELSE <<slice_node>>
                     slice_ ==
                        IF value = sLiteral
                        THEN JoinWith([i \in 1..Len(elts) |->
                                          IF elts[i].type = "Const" THEN elts[i].as_string
                                          ELSE _resolve_annotation(elts[i], root_name)],
                                      <<",", " ">>)
                        ELSE IF slice_node.type = "Tuple"
                        THEN JoinWith(each(slice_node.parts), <<",", " ">>)
                        ELSE _resolve_annotation(slice_node, root_name)
                 IN  value \o <<"[">> \o slice_ \o <<"]">>
            ELSE IF annotation.type = "Tuple"
            THEN <<"(">> \o JoinWith(each(annotation.parts), <<",", " ">>) \o <<")">>
            ELSE IF annotation.type = "List"
            THEN <<"[">> \o JoinWith(each(annotation.parts), <<",", " ">>) \o <<"]">>
            ELSE IF annotation.type = "BinOp|"
            THEN _resolve_annotation(annotation.parts[1], root_name) \o <<" ", "|", " ">>
                 \o _resolve_annotation(annotation.parts[2], root_name)
            ELSE annotation.as_string
        module_prefix == root_name \o <<".">>
    IN  IF StartsWith(resolved, styping \o <<".">>)
        THEN SubSeq(resolved, Len(styping) + 2, Len(resolved))
        ELSE IF StartsWith(resolved, module_prefix)
        THEN SubSeq(resolved, Len(module_prefix) + 1, Len(resolved))
        ELSE resolved

\* list(get_full_basenames(node))
get_full_basenames(bases, root_name) ==
    [i \in 1..Len(bases) |-> _resolve_annotation(bases[i], root_name)]

\* Line 292
IsEnumClass_mutant_last_segment(bases, root_name) ==
    \E i \in 1..Len(bases) :
        LET parts == Split(get_full_basenames(bases, root_name)[i])
        IN  parts[Len(parts)] = <<"E","n","u","m">>

IsEnumClass(bases, root_name) ==
    \E i \in 1..Len(bases) : TopLevel(get_full_basenames(bases, root_name)[i]) = senum

(***************************************************************************)
(* The enum extractor                                                      *)
(***************************************************************************)
\* A statement of a body: its node type, the type of its target (of an
\* assignment), the name of the target or of the class, and for a class
\* definition its place in module.classes.
Statement(type, target, name, id) ==
    [type |-> type, target |-> target, name |-> name, id |-> id]

\* Lines 305-315 with get_assign_target_name: an AnnAssign has one target
_parse_enum_member(statement, stack) ==
    IF statement.target = "AssignAttr" THEN <<>>
    ELSE IF statement.target # "AssignName" THEN <<>>
    ELSE <<Pair(statement.name, Join(stack \o <<statement.name>>))>>

\* The class definitions whose parent is k (0: the module), in source order
ClassChildren(k) ==
    LET ids == {c \in 1..Len(module.classes) : module.classes[c].parent = k}
        nth(n) == CHOOSE c \in ids : Cardinality({d \in ids : d < c}) = n - 1
    IN  [n \in 1..Cardinality(ids) |->
            Statement("ClassDef", "", module.classes[nth(n)].name, nth(n))]

\* node.body of class k, node.get_children() of the module for k = 0
Body(k) ==
    (IF k = 0 THEN module.statements ELSE module.classes[k].statements)
    \o ClassChildren(k)

\* Line 301
PopName_mutant_keep(stack) == stack

PopName(stack) == SubSeq(stack, 1, Len(stack) - 1)

Frame(k) == [class |-> k, pos |-> 0, results |-> <<>>]
TopFrame == frames[Len(frames)]
NextStatement == Body(TopFrame.class)[TopFrame.pos + 1]
InEnumClass ==
    /\ TopFrame.class # 0
    /\ IsEnumClass(module.classes[TopFrame.class].bases, module.name)

\* Lines 318-322
WalkParseModule ==
    /\ pc = "walk_start"
    /\ _qual_name_stack' = <<Split(module.name)[Len(Split(module.name))]>>
    /\ frames' = <<Frame(0)>>
    /\ pc' = "walking"
    /\ UNCHANGED <<module, cursor, sedVars, mainVars, resolveVars>>

\* Lines 325-326 and 298-299, then 286-289: parse_classdef is called on a
\* class definition of the body and pushes its name
WalkEnterClass ==
    /\ pc = "walking"
    /\ TopFrame.pos < Len(Body(TopFrame.class))
    /\ ~InEnumClass
    /\ NextStatement.type = "ClassDef"
    /\ _qual_name_stack' = Append(_qual_name_stack, NextStatement.name)
    /\ frames' = Append(frames, Frame(NextStatement.id))
    /\ UNCHANGED <<pc, module, cursor, sedVars, mainVars, resolveVars>>

\* Lines 293-295: an annotated assignment of the body of an enum class
WalkEnumMember ==
    /\ pc = "walking"
    /\ TopFrame.pos < Len(Body(TopFrame.class))
    /\ InEnumClass
    /\ NextStatement.type = "AnnAssign"
    /\ frames' = [frames EXCEPT
          ![Len(frames)].results = @ \o _parse_enum_member(NextStatement, _qual_name_stack),
          ![Len(frames)].pos = @ + 1]
    /\ UNCHANGED <<pc, module, _qual_name_stack, cursor, sedVars, mainVars, resolveVars>>

\* A statement the loop passes over: not an annotated assignment in an
\* enum class, not a class definition elsewhere
WalkSkipStatement ==
    /\ pc = "walking"
    /\ TopFrame.pos < Len(Body(TopFrame.class))
    /\ IF InEnumClass THEN NextStatement.type # "AnnAssign"
       ELSE NextStatement.type # "ClassDef"
    /\ frames' = [frames EXCEPT ![Len(frames)].pos = @ + 1]
    /\ UNCHANGED <<pc, module, _qual_name_stack, cursor, sedVars, mainVars, resolveVars>>

\* Lines 301-303: parse_classdef pops the name and returns; the caller
\* extends its results
WalkLeaveClass ==
    /\ pc = "walking"
    /\ TopFrame.class # 0
    /\ TopFrame.pos = Len(Body(TopFrame.class))
    /\ _qual_name_stack' = PopName(_qual_name_stack)
    /\ frames' = [SubSeq(frames, 1, Len(frames) - 1) EXCEPT
          ![Len(frames) - 1].results = @ \o TopFrame.results,
          ![Len(frames) - 1].pos = @ + 1]
    /\ UNCHANGED <<pc, module, cursor, sedVars, mainVars, resolveVars>>

\* Line 328
WalkReturn ==
    /\ pc = "walking"
    /\ TopFrame.class = 0
    /\ TopFrame.pos = Len(Body(0))
    /\ pc' = "walk_returned"
    /\ UNCHANGED <<cursor, sedVars, mainVars, resolveVars, walkVars>>

(***************************************************************************)
(* SpecWalk: parse_module run on a module                                  *)
(***************************************************************************)
MaxClasses == 3

sversion == <<"v","e","r","s","i","o","n">>

\* enum.Enum after "import enum"
BaseEnumAttribute ==
    Annotation("Attribute", Join(<<senum, sEnum>>),
               <<[type |-> "Import", names |-> <<[name |-> senum, imported_as |-> <<>>,
                                                  aliased |-> FALSE]>>,
                  modname |-> <<>>, level |-> 0, absolute_name |-> <<>>,
                  qname |-> <<>>, name |-> <<>>]>>, <<>>)
\* Enum after "from enum import IntEnum as Enum"
BaseEnumAlias ==
    Annotation("Name", sEnum,
               <<[type |-> "ImportFrom", names |-> <<[name |-> sIntEnum, imported_as |-> sEnum,
                                                      aliased |-> TRUE]>>,
                  modname |-> senum, level |-> 0, absolute_name |-> <<>>,
                  qname |-> <<>>, name |-> <<>>]>>, <<>>)
\* QObject, a class of module QtCore
BaseQObject ==
    Annotation("Name", sQObject,
               <<[type |-> "ClassDef", names |-> <<>>, modname |-> <<>>, level |-> 0,
                  absolute_name |-> <<>>, qname |-> Join(<<sQtCore, sQObject>>),
                  name |-> sQObject]>>, <<>>)
\* Enum, a class of module QtCore
BaseLocalEnum ==
    Annotation("Name", sEnum,
               <<[type |-> "ClassDef", names |-> <<>>, modname |-> <<>>, level |-> 0,
                  absolute_name |-> <<>>, qname |-> Join(<<sQtCore, sEnum>>),
                  name |-> sEnum]>>, <<>>)

ClassDef(name, bases, statements) ==
    [name |-> name, bases |-> bases, statements |-> statements]

ClassPool == {
    ClassDef(sQFile, <<>>,
             <<Statement("AnnAssign", "AssignName", sRead, 0)>>),
    ClassDef(sQText, <<BaseQObject, BaseLocalEnum>>,
             <<Statement("FunctionDef", "", sRead, 0),
               Statement("AnnAssign", "AssignName", sLeft, 0)>>),
    ClassDef(sMode, <<BaseEnumAttribute>>,
             <<Statement("AnnAssign", "AssignName", sRead, 0),
               Statement("Assign", "AssignName", sLeft, 0),
               Statement("AnnAssign", "AssignAttr", sLeft, 0),
               Statement("AnnAssign", "Subscript", sLeft, 0),
               Statement("AnnAssign", "AssignName", sReadWrite, 0)>>),
    ClassDef(sAlign, <<BaseQObject, BaseEnumAlias>>,
             <<Statement("AnnAssign", "AssignName", sLeft, 0)>>) }

ModuleNames == { sQtCore, Join(<<sPySide6, sQtWidgets>>) }

\* What the stack holds when parse_module is called: nothing in a new
\* Parser, the name of the module parsed before otherwise
StaleStacks == { <<>>, <<sQtGui>> }

InitWalk ==
    /\ pc = "walk_start"
    /\ \E n \in 1..MaxClasses :
       \E parents \in [1..n -> 0..(n - 1)] :
       \E classes \in [1..n -> ClassPool] :
       \E name \in ModuleNames :
          /\ \A k \in 1..n : parents[k] < k
          /\ module = [name |-> name,
                       statements |-> <<Statement("AnnAssign", "AssignName", sversion, 0)>>,
                       classes |-> [k \in 1..n |->
                                      [name |-> classes[k].name,
                                       bases |-> classes[k].bases,
                                       statements |-> classes[k].statements,
                                       parent |-> parents[k]]]]
    /\ _qual_name_stack \in StaleStacks
    /\ frames = <<>>
    /\ cursor = 0
    /\ substitutions = <<>>
    /\ result = <<>>
    /\ stderr = <<>>
    /\ input = <<>>
    /\ text = <<>>
    /\ before = <<>>
    /\ ip = 0
    /\ MainIdle
    /\ ResolveIdle

NextWalk ==
    \/ WalkParseModule
    \/ WalkEnterClass
    \/ WalkEnumMember
    \/ WalkSkipStatement
    \/ WalkLeaveClass
    \/ WalkReturn

SpecWalk == InitWalk /\ [][NextWalk]_vars

RECURSIVE PathNames(_)
\* The names of the class definitions around class k and of k itself,
\* outermost first, read off the tree
PathNames(k) ==
    IF k = 0 THEN <<>>
    ELSE PathNames(module.classes[k].parent) \o <<module.classes[k].name>>

ShortName == Split(module.name)[Len(Split(module.name))]

ResultsOf(f) == {frames[f].results[i] : i \in 1..Len(frames[f].results)}

NoEnumBase(k) ==
    \A i \in 1..Len(module.classes[k].bases) :
        TopLevel(_resolve_annotation(module.classes[k].bases[i], module.name)) # senum

RECURSIVE Visited(_)
\* Class k is walked into: every class definition around it has no enum base
Visited(k) ==
    \/ module.classes[k].parent = 0
    \/ /\ NoEnumBase(module.classes[k].parent)
       /\ Visited(module.classes[k].parent)

\* The pairs of the members of enum class k, read off the tree
MemberPairs(k) ==
    {Pair(module.classes[k].statements[i].name,
          Join(<<ShortName>> \o PathNames(k) \o <<module.classes[k].statements[i].name>>)) :
        i \in {j \in 1..Len(module.classes[k].statements) :
                  /\ module.classes[k].statements[j].type = "AnnAssign"
                  /\ module.classes[k].statements[j].target = "AssignName"}}

(***************************************************************************)
(* C6: during the walk the stack is the short name of the module followed  *)
(* by the names of the class definitions being visited, outermost first;   *)
(* every pair found in an enum class is qualified Module.Outer...Enum.     *)
(* Member; when parse_module returns the stack holds only the short name.  *)
(***************************************************************************)
C6_StackIsModuleThenOpenClasses ==
    pc \in {"walking", "walk_returned"} =>
        /\ frames[1].class = 0
        /\ \A f \in 2..Len(frames) :
              /\ frames[f].class # 0
              /\ module.classes[frames[f].class].parent = frames[f - 1].class
        /\ _qual_name_stack =
              <<ShortName>> \o [f \in 1..(Len(frames) - 1) |->
                                   module.classes[frames[f + 1].class].name]
        /\ \A f \in 2..Len(frames) :
              ~NoEnumBase(frames[f].class) =>
                  \A r \in ResultsOf(f) :
                      r.qual_name = Join(_qual_name_stack \o <<r.member>>)
        /\ \A f \in 1..Len(frames) :
              ResultsOf(f) \subseteq
                  UNION {MemberPairs(k) : k \in {c \in 1..Len(module.classes) :
                                                    ~NoEnumBase(c) /\ Visited(c)}}
        /\ pc = "walk_returned" =>
              /\ _qual_name_stack = <<ShortName>>
              /\ ResultsOf(1) =
                    UNION {MemberPairs(k) : k \in {c \in 1..Len(module.classes) :
                                                      ~NoEnumBase(c) /\ Visited(c)}}

\* An enum class two classes deep has given a pair
C6_Witness ==
    /\ pc = "walking"
    /\ Len(frames) = 4
    /\ TopFrame.results # <<>>
    /\ Len(_qual_name_stack) = 4

(***************************************************************************)
(* C7: a class none of whose resolved bases starts with the segment enum   *)
(* returns no pair made from a statement of its own body; every pair it    *)
(* returns comes from a class definition nested in it.                     *)
(***************************************************************************)
C7_NonEnumClassGivesNoOwnPair ==
    pc \in {"walking", "walk_returned"} =>
        \A f \in 2..Len(frames) :
            NoEnumBase(frames[f].class) =>
                \A r \in ResultsOf(f) :
                    LET prefix == Join(<<ShortName>> \o PathNames(frames[f].class)) \o <<".">>
                    IN  /\ r.qual_name # prefix \o r.member
                        /\ StartsWith(r.qual_name, prefix)
                        /\ Len(Split(r.qual_name)) >= Len(PathNames(frames[f].class)) + 3

\* A class without an enum base, with an annotated assignment in its body,
\* is about to return pairs of an enum class nested in it
C7_Witness ==
    /\ pc = "walking"
    /\ Len(frames) >= 2
    /\ NoEnumBase(TopFrame.class)
    /\ TopFrame.pos = Len(Body(TopFrame.class))
    /\ TopFrame.results # <<>>
    /\ \E i \in 1..Len(module.classes[TopFrame.class].statements) :
          /\ module.classes[TopFrame.class].statements[i].type = "AnnAssign"
          /\ module.classes[TopFrame.class].statements[i].target = "AssignName"

====
